---- MODULE Spec2Model ----
(***************************************************************************)
(* Portfolio valuation service: the HTTP handlers (main.py, rest/router.py),*)
(* the portfolio service (portfolio/service.py), the Buda price provider   *)
(* and client (portfolio/providers/price/buda), and the HTTP client wrapper *)
(* (shared/http_client.py).                                                *)
(*                                                                         *)
(* Strings whose letter case matters (asset symbols, currencies, market    *)
(* ids, header names) are sequences of one-character strings, so that      *)
(* str.lower() is computed character by character.                         *)
(***************************************************************************)
EXTENDS Integers, Sequences, FiniteSets, TLC

\* ------------------------------------------------------------------ bounds
MaxEntries == 2      \* entries in a request's portfolio
MaxHeaders == 2      \* keys in a caller-supplied headers dict
MaxClients == 2      \* HTTP clients kept alive by callers

\* ------------------------------------------------------------- str.lower()
UpperAlpha == <<"A","B","C","D","E","F","G","H","I","J","K","L","M",
                "N","O","P","Q","R","S","T","U","V","W","X","Y","Z">>
LowerAlpha == <<"a","b","c","d","e","f","g","h","i","j","k","l","m",
                "n","o","p","q","r","s","t","u","v","w","x","y","z">>

UpperSet == {UpperAlpha[i] : i \in 1..26}
LowerTable == [c \in UpperSet |-> LowerAlpha[CHOOSE i \in 1..26 : UpperAlpha[i] = c]]

LowerChar(c) == IF c \in UpperSet THEN LowerTable[c] ELSE c

Lower(s) == [i \in 1..Len(s) |-> LowerChar(s[i])]

InList(x, list) == \E i \in 1..Len(list) : list[i] = x

\* ------------------------------------------------------------ input values
BTC  == <<"B","T","C">>
eth  == <<"e","t","h">>
DOGE == <<"D","O","G","E">>
CLP  == <<"C","L","P">>
USD  == <<"U","S","D">>

Assets     == {BTC, eth, DOGE}
Currencies == {CLP, USD}
Amounts    == {0, 1, 2}
Prices     == {2, 3}

RECURSIVE SeqsUpTo(_, _)
SeqsUpTo(S, n) ==
    IF n = 0 THEN {<<>>}
    ELSE LET shorter == SeqsUpTo(S, n - 1)
         IN shorter \cup {Append(s, x) : s \in {t \in shorter : Len(t) = n - 1}, x \in S}

\* A portfolio is a dict: entries in insertion order, keys unique.
Portfolios ==
    {p \in SeqsUpTo(Assets \X Amounts, MaxEntries) :
        \A i, j \in 1..Len(p) : i # j => p[i][1] # p[j][1]}

NoValue == 0 - 1

\* ------------------------------------------------- shared/http_client.py
\* HTTPClient.__init__ defaults (lines 30-33, repeated by create_client).
MaxRetries == 3
StatusForcelist == {500, 502, 504}

\* Statuses for which the mounted Retry honours a Retry-After header: the
\* Retry of line 64 is built without respect_retry_after_header=False.
RetryAfterStatusCodes == {413, 429, 503}

\* One upstream answer to one attempt on the wire.  code = ConnError stands
\* for an attempt that produced no response (connection or read error).
ConnError == 0
Responses ==
    {[code |-> c, retry_after |-> FALSE] : c \in {ConnError, 200, 404, 429, 500, 502, 503, 504}}
    \cup {[code |-> c, retry_after |-> TRUE] : c \in {429, 503}}

\* Variant: every error status is taken for transient.
is_retry_any_error(r, total) == r.code >= 400

\* Retry.is_retry for the strategy configured at lines 64-78: every method
\* is allowed, a status of the forcelist is retried, and so is a
\* Retry-After status that carries the header while retries remain.
is_retry(r, total) ==
    \/ r.code \in StatusForcelist
    \/ total > 0 /\ r.retry_after /\ r.code \in RetryAfterStatusCodes

\* session.request through the mounted adapter (lines 80-82, 140): the
\* attempts of one call, answered in turn by script.  "pending" means the
\* call still waits for an answer the script does not hold yet.
RECURSIVE urlopen(_, _, _)
urlopen(script, i, total) ==
    IF i > Len(script)
    THEN [outcome |-> "pending", code |-> 0, attempts |-> i - 1]
    ELSE LET r == script[i] IN
         IF r.code = ConnError
         THEN IF total - 1 < 0
              THEN [outcome |-> "ConnectionError", code |-> 0, attempts |-> i]
              ELSE urlopen(script, i + 1, total - 1)
         ELSE IF is_retry(r, total)
         THEN IF total - 1 < 0
              THEN [outcome |-> "RetryError", code |-> r.code, attempts |-> i]
              ELSE urlopen(script, i + 1, total - 1)
         ELSE [outcome |-> "response", code |-> r.code, attempts |-> i]

\* HTTPClient._make_request with raise_for_status=True (lines 139-150).
make_request(script) ==
    LET u == urlopen(script, 1, MaxRetries) IN
    IF u.outcome = "response" /\ u.code >= 400
    THEN [u EXCEPT !.outcome = "HTTPError"]
    ELSE u

\* ----------------------------------------------------- headers dictionaries
\* A dict is its entries <<key, value>> in insertion order, keys unique.
Accept      == <<"A","c","c","e","p","t">>
ContentType == <<"C","o","n","t","e","n","t","-","T","y","p","e">>
XToken      == <<"X","-","T","o","k","e","n">>

HasKey(d, k) == \E i \in 1..Len(d) : d[i][1] = k

\* d[k] = v: an existing key keeps its position, a new key goes last.
SetItem(d, k, v) ==
    IF HasKey(d, k)
    THEN [i \in 1..Len(d) |-> IF d[i][1] = k THEN <<k, v>> ELSE d[i]]
    ELSE Append(d, <<k, v>>)

\* dict.update(other): other's entries are assigned in other's order.
RECURSIVE dict_update(_, _)
dict_update(d, other) ==
    IF other = <<>> THEN d
    ELSE dict_update(SetItem(d, other[1][1], other[1][2]), Tail(other))

\* session.headers is case-insensitive: an entry is stored under the
\* lower-cased name, so a later spelling of a name replaces an earlier one.
RECURSIVE session_headers_update(_, _)
session_headers_update(d, other) ==
    IF other = <<>> THEN d
    ELSE session_headers_update(SetItem(d, Lower(other[1][1]), other[1][2]), Tail(other))

HeaderOf(d, name) ==
    IF HasKey(d, Lower(name))
    THEN d[CHOOSE i \in 1..Len(d) : d[i][1] = Lower(name)][2]
    ELSE "absent"

\* self._default_headers (lines 51-54).
default_headers == << <<Accept, "application/json">>, <<ContentType, "application/json">> >>

\* The headers of a fresh requests.Session() (line 61), before line 85.
new_session_headers == << <<Lower(Accept), "*/*">> >>

\* Variant: the defaults are laid down first and the caller's entries win.
merged_headers_caller_wins(headers) == dict_update(default_headers, headers)

\* Lines 84-85: the dict bound to the headers parameter is updated in place
\* with the defaults, and the session's headers are updated from it.
merged_headers(headers) == dict_update(headers, default_headers)

session_headers(headers) == session_headers_update(new_session_headers, merged_headers(headers))

\* Dicts a caller may pass as headers=.
HeaderNames  == {Accept, Lower(Accept), XToken}
CallerValues == {"text/html"}
CallerHeaders ==
    {h \in SeqsUpTo(HeaderNames \X CallerValues, MaxHeaders) :
        \A i, j \in 1..Len(h) : i # j => h[i][1] # h[j][1]}

\* ------------------------------------------------------ upstream exchange
BTC_CLP == <<"B","T","C","-","C","L","P">>
ETH_CLP == <<"E","T","H","-","C","L","P">>
BTC_USD == <<"B","T","C","-","U","S","D">>

\* What the exchange answers: GET /markets lists ids, a ticker carries
\* last_price = <<amount, currency>> (models.py 22-37).
Listings  == {<<>>, <<BTC_CLP, ETH_CLP>>, <<ETH_CLP, BTC_USD>>}
Exchanges == [markets : Listings, last_price : Prices \X {CLP}]

OK200 == [code |-> 200, retry_after |-> FALSE]
E404  == [code |-> 404, retry_after |-> FALSE]
E500  == [code |-> 500, retry_after |-> FALSE]

\* Complete courses of one outbound call, as the service level sees them.
UpstreamScripts == {<<OK200>>, <<E500, OK200>>, <<E404>>, <<E500, E500, E500, E500>>}

\* ------------------------------------------------------- price providers
\* BudaPriceProvider as written (provider.py 7-17), and BudaPriceProvider
\* with get_valid_markets and get_market_price patched as the integration
\* tests patch them (test_api.py 31-36, 44-53).
PriceError  == 0 - 1
StubMarkets == << <<"b","t","c","-","c","l","p">>, <<"e","t","h","-","c","l","p">>,
                  <<"u","s","d","t","-","c","l","p">> >>

BudaProvider == [kind |-> "buda", markets |-> <<>>, prices |-> <<>>]
StubProviders ==
    {[kind |-> "stub", markets |-> StubMarkets, prices |-> ps] :
        ps \in SeqsUpTo(Prices \cup {PriceError}, MaxEntries)}
Providers == {BudaProvider} \cup StubProviders

\* The attributes the classes define.
BudaPriceProviderMethods == {"get_valid_markets", "get_portfolio_value"}
PortfolioServiceMethods  ==
    {"_build_market_id", "validate_portfolio_assets", "get_portfolio_value"}

ProviderMethods(provider) ==
    IF provider.kind = "buda" THEN BudaPriceProviderMethods
    ELSE BudaPriceProviderMethods \cup {"get_market_price"}

\* BudaClient.get_markets / get_market_price (client.py 12-18): one
\* http_client.get each, the body parsed when the call returns a response.
client_get_markets(exchange, script) ==
    LET r == make_request(script) IN
    [outcome |-> IF r.outcome = "response" THEN "return" ELSE r.outcome,
     markets |-> IF r.outcome = "response" THEN exchange.markets ELSE <<>>,
     gets    |-> <<"/markets">>]

client_get_market_price(exchange, market, script) ==
    LET r == make_request(script) IN
    [outcome    |-> IF r.outcome = "response" THEN "return" ELSE r.outcome,
     last_price |-> IF r.outcome = "response" THEN exchange.last_price ELSE <<NoValue, <<>>>>,
     gets       |-> <<"/markets/{market}/ticker">>]

\* provider.get_valid_markets() (provider.py 11-12).
get_valid_markets(provider, exchange, script) ==
    IF provider.kind = "stub"
    THEN [outcome |-> "return", markets |-> provider.markets, gets |-> <<>>]
    ELSE LET c == client_get_markets(exchange, script) IN
         [c EXCEPT !.markets = [i \in 1..Len(c.markets) |-> Lower(c.markets[i])]]

\* provider.get_market_price(market), the n-th such call on this provider.
get_market_price(provider, market, n) ==
    IF "get_market_price" \notin ProviderMethods(provider)
    THEN [outcome |-> "AttributeError", price |-> NoValue]
    ELSE IF n <= Len(provider.prices) /\ provider.prices[n] # PriceError
    THEN [outcome |-> "return", price |-> provider.prices[n]]
    ELSE [outcome |-> "Exception", price |-> NoValue]

\* --------------------------------------------------- portfolio/service.py
InvalidAssetPrefix == <<"I","n","v","a","l","i","d"," ","a","s","s","e","t",":"," ">>
Healthy == <<"h","e","a","l","t","h","y">>
NoBody  == [key |-> "", text |-> <<>>]

Call(fn, market, ret) == [fn |-> fn, market |-> market, ret |-> ret]

\* PortfolioService._build_market_id (lines 12-13).
build_market_id(asset, target_currency) == Lower(asset \o <<"-">> \o target_currency)

\* The loop of validate_portfolio_assets (lines 19-23) from entry i on.
\* Variant: the entries are examined from the last one back.
RECURSIVE validate_entries_last_first(_, _, _, _)
validate_entries_last_first(portfolio, i, target_currency, valid_markets) ==
    IF i > Len(portfolio)
    THEN [outcome |-> "return", status |-> 0, body |-> NoBody, examined |-> i - 1]
    ELSE LET asset  == portfolio[Len(portfolio) + 1 - i][1]
             market == build_market_id(asset, target_currency)
         IN IF ~InList(market, valid_markets)
            THEN [outcome |-> "HTTPException", status |-> 400,
                  body |-> [key |-> "detail", text |-> InvalidAssetPrefix \o asset],
                  examined |-> i]
            ELSE validate_entries_last_first(portfolio, i + 1, target_currency, valid_markets)

RECURSIVE validate_entries(_, _, _, _)
validate_entries(portfolio, i, target_currency, valid_markets) ==
    IF i > Len(portfolio)
    THEN [outcome |-> "return", status |-> 0, body |-> NoBody, examined |-> i - 1]
    ELSE LET asset  == portfolio[i][1]
             market == build_market_id(asset, target_currency)
         IN IF ~InList(market, valid_markets)
            THEN [outcome |-> "HTTPException", status |-> 400,
                  body |-> [key |-> "detail", text |-> InvalidAssetPrefix \o asset],
                  examined |-> i]
            ELSE validate_entries(portfolio, i + 1, target_currency, valid_markets)

\* PortfolioService.validate_portfolio_assets (lines 15-23).
validate_portfolio_assets(provider, exchange, script, portfolio, target_currency) ==
    LET v     == get_valid_markets(provider, exchange, script)
        calls == <<Call("get_valid_markets", <<>>, NoValue)>>
    IN IF v.outcome # "return"
       THEN [outcome |-> v.outcome, status |-> 0, value |-> NoValue, body |-> NoBody,
             examined |-> 0, calls |-> calls, gets |-> v.gets, valid_markets |-> <<>>]
       ELSE LET r == validate_entries(portfolio, 1, target_currency, v.markets) IN
            [outcome |-> r.outcome, status |-> r.status, value |-> NoValue, body |-> r.body,
             examined |-> r.examined, calls |-> calls, gets |-> v.gets,
             valid_markets |-> v.markets]

\* value = Decimal(0) (line 28).
Decimal0 == 0

\* The loop of get_portfolio_value (lines 29-32) from entry i on.
\* Variant: an entry whose amount is zero is not priced.
RECURSIVE price_entries_skip_zero(_, _, _, _, _, _)
price_entries_skip_zero(provider, portfolio, i, target_currency, value, calls) ==
    IF i > Len(portfolio)
    THEN [outcome |-> "return", value |-> value, calls |-> calls]
    ELSE IF portfolio[i][2] = 0
    THEN price_entries_skip_zero(provider, portfolio, i + 1, target_currency, value, calls)
    ELSE LET market == build_market_id(portfolio[i][1], target_currency)
             p      == get_market_price(provider, market, Len(calls) + 1)
             logged == Append(calls, Call("get_market_price", market, p.price))
         IN IF p.outcome # "return"
            THEN [outcome |-> p.outcome, value |-> NoValue, calls |-> logged]
            ELSE price_entries_skip_zero(provider, portfolio, i + 1, target_currency,
                                         value + p.price * portfolio[i][2], logged)

RECURSIVE price_entries(_, _, _, _, _, _)
price_entries(provider, portfolio, i, target_currency, value, calls) ==
    IF i > Len(portfolio)
    THEN [outcome |-> "return", value |-> value, calls |-> calls]
    ELSE LET market == build_market_id(portfolio[i][1], target_currency)
             p      == get_market_price(provider, market, Len(calls) + 1)
             logged == Append(calls, Call("get_market_price", market, p.price))
         IN IF p.outcome # "return"
            THEN [outcome |-> p.outcome, value |-> NoValue, calls |-> logged]
            ELSE price_entries(provider, portfolio, i + 1, target_currency,
                               value + p.price * portfolio[i][2], logged)

\* Variant: the valid markets are fetched again before pricing.
get_portfolio_value_revalidates(provider, portfolio, target_currency) ==
    LET first == <<Call("get_valid_markets", <<>>, NoValue)>>
        r     == price_entries(provider, portfolio, 1, target_currency, Decimal0, first)
    IN [outcome |-> r.outcome, status |-> 0, value |-> r.value, body |-> NoBody,
        examined |-> Len(r.calls), calls |-> r.calls, gets |-> <<>>, valid_markets |-> <<>>]

\* PortfolioService.get_portfolio_value (lines 25-33).
get_portfolio_value(provider, portfolio, target_currency) ==
    LET r == price_entries(provider, portfolio, 1, target_currency, Decimal0, <<>>) IN
    [outcome |-> r.outcome, status |-> 0, value |-> r.value, body |-> NoBody,
     examined |-> Len(r.calls), calls |-> r.calls, gets |-> <<>>, valid_markets |-> <<>>]

\* Looking up a method on a PortfolioService and calling it: a name the
\* class does not define raises AttributeError before anything runs.
AttributeError ==
    [outcome |-> "AttributeError", status |-> 0, value |-> NoValue, body |-> NoBody,
     examined |-> 0, calls |-> <<>>, gets |-> <<>>, valid_markets |-> <<>>]

service_call(method, provider, exchange, script, portfolio, target_currency) ==
    IF method \notin PortfolioServiceMethods THEN AttributeError
    ELSE IF method = "validate_portfolio_assets"
    THEN validate_portfolio_assets(provider, exchange, script, portfolio, target_currency)
    ELSE get_portfolio_value(provider, portfolio, target_currency)

\* ------------------------------------------------------------------ state
VARIABLES
    request,         \* the call being served: operation and its inputs
    result,          \* what that call produced and which calls it issued
    exchange,        \* the upstream exchange: listed markets, last price
    create_headers,  \* the dict object behind create_client's headers={} default
    init_headers,    \* the dict object behind HTTPClient.__init__'s headers={} default
    clients,         \* session headers of the HTTP clients callers hold
    inflight,        \* whether an HTTPClient.get call is in progress
    trace            \* the upstream answers that call has received so far

vars == <<request, result, exchange, create_headers, init_headers, clients, inflight, trace>>

Idle ==
    [op |-> "idle", provider |-> BudaProvider, script |-> <<>>, portfolio |-> <<>>,
     currency |-> <<>>, market |-> <<>>]

Request(op, provider, script, portfolio, currency, market) ==
    [op |-> op, provider |-> provider, script |-> script, portfolio |-> portfolio,
     currency |-> currency, market |-> market]

NoResult ==
    [outcome |-> "none", status |-> 0, value |-> NoValue, body |-> NoBody,
     examined |-> 0, calls |-> <<>>, gets |-> <<>>, valid_markets |-> <<>>]

Init ==
    /\ request = Idle
    /\ result = NoResult
    /\ exchange = [markets |-> <<BTC_CLP, ETH_CLP>>, last_price |-> <<2, CLP>>]
    /\ create_headers = <<>>
    /\ init_headers = <<>>
    /\ clients = <<>>
    /\ inflight = FALSE
    /\ trace = <<>>

\* ------------------------------------------------------------- handlers
\* Variant: health reports on the exchange.
health_checks_upstream(ex) ==
    IF ex.markets = <<>>
    THEN [NoResult EXCEPT !.outcome = "response", !.status = 503,
                          !.body = [key |-> "status", text |-> <<>>]]
    ELSE [NoResult EXCEPT !.outcome = "response", !.status = 200,
                          !.body = [key |-> "status", text |-> Healthy]]

\* GET /health (main.py 8-10).
health(ex) ==
    [NoResult EXCEPT !.outcome = "response", !.status = 200,
                     !.body = [key |-> "status", text |-> Healthy]]

Health ==
    /\ request' = Request("health", BudaProvider, <<>>, <<>>, <<>>, <<>>)
    /\ result' = health(exchange)
    /\ UNCHANGED <<exchange, create_headers, init_headers, clients, inflight, trace>>

\* PortfolioValueResponse(value=1000) (router.py 18).
StubbedValue == 1000

\* POST /portfolio/value (router.py 12-18).  An HTTPException becomes a
\* response with its status and detail, any other exception a 500.
portfolio_value(provider, ex, script, portfolio, fiat_currency) ==
    LET v == service_call("validate_portfolio", provider, ex, script, portfolio, fiat_currency)
    IN IF v.outcome = "return"
       THEN [v EXCEPT !.outcome = "response", !.status = 200, !.value = StubbedValue,
                      !.body = [key |-> "value", text |-> <<>>]]
       ELSE IF v.outcome = "HTTPException"
       THEN [v EXCEPT !.outcome = "response"]
       ELSE [v EXCEPT !.status = 500]

\* BudaPriceProvider() builds a BudaClient, which calls create_client
\* without headers (provider.py 9, client.py 10): the default dict of
\* create_client is the one HTTPClient.__init__ updates in place.
ConstructProvider ==
    /\ create_headers' = merged_headers(create_headers)
    /\ UNCHANGED <<init_headers, clients>>

PortfolioValue ==
    /\ request.op = "idle"
    /\ \E portfolio \in Portfolios, currency \in Currencies, script \in UpstreamScripts :
        /\ request' = Request("portfolio_value", BudaProvider, script, portfolio, currency, <<>>)
        /\ ConstructProvider
        /\ result' = portfolio_value(BudaProvider, exchange, script, portfolio, currency)
        /\ UNCHANGED <<exchange, inflight, trace>>

\* --------------------------------------------------- direct service calls
\* The scripts that matter to a provider: a patched get_valid_markets makes
\* no outbound call.
ScriptsFor(provider) == IF provider.kind = "buda" THEN UpstreamScripts ELSE {<<>>}

ValidatePortfolioAssets ==
    /\ request.op = "idle"
    /\ \E provider \in {BudaProvider, [kind |-> "stub", markets |-> StubMarkets, prices |-> <<>>]},
       portfolio \in Portfolios, currency \in Currencies :
      \E script \in ScriptsFor(provider) :
        /\ request' = Request("validate_portfolio_assets", provider, script, portfolio,
                              currency, <<>>)
        /\ ConstructProvider
        /\ result' = service_call("validate_portfolio_assets", provider, exchange, script,
                                  portfolio, currency)
        /\ UNCHANGED <<exchange, inflight, trace>>

GetPortfolioValue ==
    /\ request.op = "idle"
    /\ \E provider \in Providers, portfolio \in Portfolios, currency \in Currencies :
        /\ request' = Request("get_portfolio_value", provider, <<>>, portfolio, currency, <<>>)
        /\ ConstructProvider
        /\ result' = service_call("get_portfolio_value", provider, exchange, <<>>,
                                  portfolio, currency)
        /\ UNCHANGED <<exchange, inflight, trace>>

\* -------------------------------------------------- direct provider calls
Markets == {build_market_id(a, c) : a \in Assets, c \in Currencies}

ProviderGetValidMarkets ==
    /\ request.op = "idle"
    /\ \E provider \in {BudaProvider, [kind |-> "stub", markets |-> StubMarkets, prices |-> <<>>]} :
      \E script \in ScriptsFor(provider) :
        /\ request' = Request("provider.get_valid_markets", provider, script, <<>>, <<>>, <<>>)
        /\ ConstructProvider
        /\ LET v == get_valid_markets(provider, exchange, script) IN
           result' = [NoResult EXCEPT !.outcome = v.outcome, !.valid_markets = v.markets,
                                      !.gets = v.gets]
        /\ UNCHANGED <<exchange, inflight, trace>>

ProviderGetMarketPrice ==
    /\ request.op = "idle"
    /\ \E provider \in Providers, market \in Markets :
        /\ request' = Request("provider.get_market_price", provider, <<>>, <<>>, <<>>, market)
        /\ ConstructProvider
        /\ LET p == get_market_price(provider, market, 1) IN
           result' = [NoResult EXCEPT !.outcome = p.outcome, !.value = p.price]
        /\ UNCHANGED <<exchange, inflight, trace>>

\* BudaClient().get_market_price(market): the ticker, whose last_price[0] is
\* kept in result.value.
ClientGetMarketPrice ==
    /\ request.op = "idle"
    /\ \E market \in Markets, script \in UpstreamScripts :
        /\ request' = Request("client.get_market_price", BudaProvider, script, <<>>, <<>>, market)
        /\ ConstructProvider
        /\ LET t == client_get_market_price(exchange, market, script) IN
           result' = [NoResult EXCEPT !.outcome = t.outcome, !.value = t.last_price[1],
                                      !.gets = t.gets]
        /\ UNCHANGED <<exchange, inflight, trace>>

\* The exchange lists other markets or trades at another price.
ExchangeUpdate ==
    /\ request.op = "idle"
    /\ exchange' \in Exchanges \ {exchange}
    /\ UNCHANGED <<request, result, create_headers, init_headers, clients, inflight, trace>>

\* The call has returned to its caller; the next one can be served.
Finish ==
    /\ request.op # "idle"
    /\ request' = Idle
    /\ result' = NoResult
    /\ UNCHANGED <<exchange, create_headers, init_headers, clients, inflight, trace>>

Next ==
    \/ Health
    \/ PortfolioValue
    \/ ValidatePortfolioAssets
    \/ GetPortfolioValue
    \/ ProviderGetValidMarkets
    \/ ProviderGetMarketPrice
    \/ ClientGetMarketPrice
    \/ ExchangeUpdate
    \/ Finish

Spec == Init /\ [][Next]_vars

\* ------------------------------------------- constructing HTTP clients
\* HTTPClient(...) (http_client.py 27-88).  Without a headers argument the
\* parameter is bound to the shared default dict, which line 84 updates.
Client(via, session, supplied, arg) ==
    [via |-> via, headers |-> session, supplied |-> supplied, arg |-> arg]

HTTPClientDefault ==
    /\ Len(clients) < MaxClients
    /\ init_headers' = merged_headers(init_headers)
    /\ clients' = Append(clients, Client("HTTPClient", session_headers(init_headers), FALSE, <<>>))
    /\ UNCHANGED <<create_headers, request, result, exchange, inflight, trace>>

HTTPClientWithHeaders ==
    /\ Len(clients) < MaxClients
    /\ \E h \in CallerHeaders :
        /\ clients' = Append(clients, Client("HTTPClient", session_headers(h), TRUE, h))
        /\ UNCHANGED <<init_headers, create_headers, request, result, exchange, inflight, trace>>

\* create_client(...) (http_client.py 304-330) passes its own headers
\* parameter on, so HTTPClient.__init__ never falls back to its default.
CreateClientDefault ==
    /\ Len(clients) < MaxClients
    /\ create_headers' = merged_headers(create_headers)
    /\ clients' = Append(clients, Client("create_client", session_headers(create_headers), FALSE, <<>>))
    /\ UNCHANGED <<init_headers, request, result, exchange, inflight, trace>>

CreateClientWithHeaders ==
    /\ Len(clients) < MaxClients
    /\ \E h \in CallerHeaders :
        /\ clients' = Append(clients, Client("create_client", session_headers(h), TRUE, h))
        /\ UNCHANGED <<init_headers, create_headers, request, result, exchange, inflight, trace>>

\* HTTPClient.close (lines 290-292): the caller is done with its oldest client.
Close ==
    /\ clients # <<>>
    /\ clients' = Tail(clients)
    /\ UNCHANGED <<init_headers, create_headers, request, result, exchange, inflight, trace>>

NextClients ==
    \/ HTTPClientDefault
    \/ HTTPClientWithHeaders
    \/ CreateClientDefault
    \/ CreateClientWithHeaders
    \/ Close

SpecClients == Init /\ [][NextClients]_vars

\* ------------------------------------------------------ HTTPClient.get
\* One get call (lines 152-171), attempt by attempt: the call is made, the
\* upstream answers each attempt, and the call ends when _make_request
\* returns or raises.
Get ==
    /\ ~inflight
    /\ inflight' = TRUE
    /\ trace' = <<>>
    /\ UNCHANGED <<request, result, exchange, create_headers, init_headers, clients>>

Answer ==
    /\ inflight
    /\ make_request(trace).outcome = "pending"
    /\ \E r \in Responses :
        /\ trace' = Append(trace, r)
        /\ UNCHANGED <<inflight, request, result, exchange, create_headers, init_headers, clients>>

GetEnds ==
    /\ inflight
    /\ make_request(trace).outcome # "pending"
    /\ inflight' = FALSE
    /\ UNCHANGED <<trace, request, result, exchange, create_headers, init_headers, clients>>

NextRetry == Get \/ Answer \/ GetEnds

SpecRetry == Init /\ [][NextRetry]_vars

\* ================================================================ claims
\* The market identifier of the specification: lower-cased asset-fiat.
MarketOf(asset, fiat) == Lower(asset \o <<"-">> \o fiat)

InvalidEntries(portfolio, fiat, valid) ==
    {i \in 1..Len(portfolio) : ~InList(MarketOf(portfolio[i][1], fiat), valid)}

Least(S) == CHOOSE i \in S : \A j \in S : i <= j

\* The list the bound provider reports for the request being served.
ListedLower == [i \in 1..Len(exchange.markets) |-> Lower(exchange.markets[i])]
UpstreamAnswers == make_request(request.script).outcome = "response"

PriceCalls == {j \in 1..Len(result.calls) : result.calls[j].fn = "get_market_price"}

RECURSIVE Total(_, _, _)
Total(portfolio, calls, i) ==
    IF i > Len(portfolio) \/ i > Len(calls) THEN 0
    ELSE portfolio[i][2] * calls[i].ret + Total(portfolio, calls, i + 1)

\* C1 (as claimed): a POST /portfolio/value whose assets all derive listed
\* markets is answered 200 with value = sum of amount_i * price_i, price_i
\* being what get_market_price returned for entry i.
C1_ValueIsSumOfAmountTimesPrice ==
    (/\ request.op = "portfolio_value"
     /\ UpstreamAnswers
     /\ InvalidEntries(request.portfolio, request.currency, ListedLower) = {})
    => /\ result.status = 200
       /\ Cardinality(PriceCalls) = Len(request.portfolio)
       /\ result.value =
            Total(request.portfolio,
                  SelectSeq(result.calls, LAMBDA c : c.fn = "get_market_price"), 1)

\* C2 (as claimed): a POST /portfolio/value with at least one asset whose
\* market is not listed is answered 400 with the invalid-asset detail.
C2_InvalidAssetAnswered400 ==
    (/\ request.op = "portfolio_value"
     /\ UpstreamAnswers
     /\ InvalidEntries(request.portfolio, request.currency, ListedLower) # {})
    => /\ result.status = 400
       /\ result.body.key = "detail"

\* C3 (as claimed): the handler validates before it prices: the first
\* provider call is get_valid_markets, no price is looked up when validation
\* fails, and when it succeeds every entry is priced through the service and
\* the computed total is the value returned.
C3_ValidateThenPrice ==
    request.op = "portfolio_value" =>
      /\ \A j \in PriceCalls : j > 1 /\ result.calls[1].fn = "get_valid_markets"
      /\ result.status = 400 => PriceCalls = {}
      /\ (/\ UpstreamAnswers
          /\ InvalidEntries(request.portfolio, request.currency, ListedLower) = {})
         => /\ result.status = 200
            /\ result.calls # <<>> /\ result.calls[1].fn = "get_valid_markets"
            /\ Cardinality(PriceCalls) = Len(request.portfolio)
            /\ result.value = Total(request.portfolio, Tail(result.calls), 1)

\* C4: validate_portfolio_assets reports exactly the first invalid asset in
\* insertion order, with detail "Invalid asset: <asset as supplied>", and
\* examines no entry after it; with no invalid asset it returns None.
C4_FirstInvalidAssetReported ==
    (request.op = "validate_portfolio_assets" /\ result.outcome \in {"return", "HTTPException"})
    => LET invalid == InvalidEntries(request.portfolio, request.currency, result.valid_markets)
       IN IF invalid = {}
          THEN result.outcome = "return" /\ result.examined = Len(request.portfolio)
          ELSE /\ result.outcome = "HTTPException"
               /\ result.status = 400
               /\ result.body = [key |-> "detail",
                                 text |-> InvalidAssetPrefix \o request.portfolio[Least(invalid)][1]]
               /\ result.examined = Least(invalid)

C4_Witness ==
    /\ request.op = "validate_portfolio_assets"
    /\ result.outcome = "HTTPException"
    /\ Cardinality(InvalidEntries(request.portfolio, request.currency, result.valid_markets)) >= 2
    /\ request.portfolio[1][1] # Lower(request.portfolio[1][1])

\* C5: get_portfolio_value of an empty portfolio returns 0 and looks up no
\* price, whatever the target currency and the provider.
C5_EmptyPortfolioIsZero ==
    (request.op = "get_portfolio_value" /\ request.portfolio = <<>>)
    => /\ result.outcome = "return"
       /\ result.value = 0
       /\ result.calls = <<>>
       /\ result.gets = <<>>

C5_Witness ==
    /\ request.op = "get_portfolio_value"
    /\ request.portfolio = <<>>
    /\ request.currency = USD
    /\ request.provider.kind = "buda"
    /\ result.outcome = "return"

\* C6 (as claimed): BudaPriceProvider offers get_valid_markets, returning the
\* listed ids lower-cased, and get_market_price, returning last_price[0] of
\* that market's ticker; each call makes exactly one outbound GET.
C6_ProviderOffersBothOperations ==
    /\ (/\ request.op = "provider.get_valid_markets"
        /\ request.provider.kind = "buda")
       => /\ Len(result.gets) = 1
          /\ result.outcome = "return" => result.valid_markets = ListedLower
    /\ (/\ request.op = "provider.get_market_price"
        /\ request.provider.kind = "buda")
       => /\ result.outcome # "AttributeError"
          /\ Len(result.gets) = 1
          /\ result.outcome = "return" => result.value = exchange.last_price[1]

\* C7: GET /health answers 200 {"status": "healthy"} whatever the exchange
\* lists and whatever earlier requests did, and issues no call.
C7_HealthAlwaysHealthy ==
    request.op = "health"
    => /\ result.status = 200
       /\ result.body = [key |-> "status", text |-> Healthy]
       /\ result.calls = <<>>
       /\ result.gets = <<>>

C7_Witness ==
    /\ request.op = "health"
    /\ exchange.markets = <<>>
    /\ create_headers # <<>>
    /\ result.status = 200

\* C8: get_portfolio_value looks up one price per entry, in portfolio order,
\* zero amounts included, never calls get_valid_markets, and fails without a
\* total as soon as a lookup fails.
C8_OneLookupPerEntryInOrder ==
    request.op = "get_portfolio_value"
    => /\ result.gets = <<>>
       /\ Len(result.calls) <= Len(request.portfolio)
       /\ \A j \in 1..Len(result.calls) :
            /\ result.calls[j].fn = "get_market_price"
            /\ result.calls[j].market = MarketOf(request.portfolio[j][1], request.currency)
            /\ j < Len(result.calls) => result.calls[j].ret # NoValue
       /\ result.outcome = "return"
            => /\ Len(result.calls) = Len(request.portfolio)
               /\ \A j \in 1..Len(result.calls) : result.calls[j].ret # NoValue
               /\ result.value = Total(request.portfolio, result.calls, 1)
       /\ result.outcome # "return"
            => /\ result.value = NoValue
               /\ result.calls # <<>>
               /\ result.calls[Len(result.calls)].ret = NoValue

C8_Witness ==
    /\ request.op = "get_portfolio_value"
    /\ result.outcome = "return"
    /\ Len(request.portfolio) >= 2
    /\ request.portfolio[1][2] = 0
    /\ result.value > 0

\* ---------------------------------------------------------------- C9
\* Answer i of the current call was retried when another attempt followed it.
Retried(i) == i < Len(trace)
IsResponse(r) == r.code # ConnError
ClientError(r) == r.code >= 400 /\ r.code <= 499

\* C9 (as claimed): a response is retried only when its status is 500, 502
\* or 504; a call makes at most 4 attempts and fails when the 4th is still
\* transient; a 4xx response is never retried and fails the call at once.
C9_RetryOnlyTransientStatuses ==
    /\ \A i \in 1..Len(trace) :
         (Retried(i) /\ IsResponse(trace[i])) => trace[i].code \in {500, 502, 504}
    /\ Len(trace) <= 4
    /\ (Len(trace) = 4 /\ trace[4].code \in {500, 502, 504})
         => make_request(trace).outcome = "RetryError"
    /\ \A i \in 1..Len(trace) :
         ClientError(trace[i])
           => /\ ~Retried(i)
              /\ make_request(trace).outcome = "HTTPError"
              /\ make_request(trace).attempts = i

\* C9 (amended): besides 500, 502 and 504, a 413, 429 or 503 response that
\* carries a Retry-After header is retried too; every other 4xx response
\* ends the call with an error at that attempt.
HonoursRetryAfter(r) == r.retry_after /\ r.code \in {413, 429, 503}

C9_RetryTransientOrRetryAfter ==
    /\ \A i \in 1..Len(trace) :
         (Retried(i) /\ IsResponse(trace[i]))
           => trace[i].code \in {500, 502, 504} \/ HonoursRetryAfter(trace[i])
    /\ Len(trace) <= 4
    /\ (Len(trace) = 4 /\ trace[4].code \in {500, 502, 504})
         => make_request(trace).outcome = "RetryError"
    /\ \A i \in 1..Len(trace) :
         (ClientError(trace[i]) /\ ~HonoursRetryAfter(trace[i]))
           => /\ ~Retried(i)
              /\ make_request(trace).outcome = "HTTPError"
              /\ make_request(trace).attempts = i

C9_Witness ==
    /\ ~inflight
    /\ Len(trace) = 4
    /\ \A i \in 1..4 : trace[i].code \in {500, 502, 504}
    /\ trace[1].code # trace[2].code
    /\ make_request(trace).outcome = "RetryError"

\* --------------------------------------------------------------- C10
Json == "application/json"
DefaultsOnly(d) ==
    \A i \in 1..Len(d) : d[i] \in {<<Accept, Json>>, <<ContentType, Json>>}

\* The supplied dict h spells `name` exactly and, inserted after it, in
\* another capitalisation.
Respelled(h, name) ==
    \E i, j \in 1..Len(h) :
        i < j /\ h[i][1] = name /\ h[j][1] # name /\ Lower(h[j][1]) = Lower(name)

NothingForeign(c) ==
    \A i \in 1..Len(c.headers) : c.headers[i][1] \in {Lower(Accept), Lower(ContentType)}

\* C10 (as claimed): every client's session carries Accept and Content-Type
\* application/json, a client built without headers carries nothing supplied
\* to another client, and the shared default dicts hold only the defaults.
C10_DefaultsAlwaysApplied ==
    /\ \A n \in 1..Len(clients) :
         /\ HeaderOf(clients[n].headers, Accept) = Json
         /\ HeaderOf(clients[n].headers, ContentType) = Json
         /\ ~clients[n].supplied => NothingForeign(clients[n])
    /\ DefaultsOnly(init_headers)
    /\ DefaultsOnly(create_headers)

\* C10 (amended): as claimed, except for a header the caller's dict spells
\* twice, exactly and then in another capitalisation.
C10_DefaultsAppliedUnlessRespelled ==
    /\ \A n \in 1..Len(clients) :
         /\ ~Respelled(clients[n].arg, Accept) => HeaderOf(clients[n].headers, Accept) = Json
         /\ ~Respelled(clients[n].arg, ContentType)
              => HeaderOf(clients[n].headers, ContentType) = Json
         /\ ~clients[n].supplied => NothingForeign(clients[n])
    /\ DefaultsOnly(init_headers)
    /\ DefaultsOnly(create_headers)

C10_Witness ==
    /\ Len(clients) = 2
    /\ clients[1].supplied
    /\ HasKey(clients[1].arg, XToken) /\ HasKey(clients[1].arg, Accept)
    /\ HeaderOf(clients[1].headers, Accept) = Json
    /\ ~clients[2].supplied
    /\ create_headers # <<>>

====
